---- MODULE Spec2Model ----
(***************************************************************************)
(* The traffic-capture middleware of the reverse proxy: logRequest, its    *)
(* responseWriter (the Capturing Response Sink), decompressBody,           *)
(* formatJSON and isJSON of src/unnamed/part_000, and beside them the      *)
(* simpler responseWriter of src/main.go.                                  *)
(*                                                                         *)
(* Bytes are natural numbers, byte strings are sequences of them.  The     *)
(* wrapped handler (httputil.ReverseProxy, the Forwarding Engine) and the  *)
(* server's own http.ResponseWriter are the environment: the engine makes  *)
(* any bounded sequence of Header/WriteHeader/Write calls on the writer it *)
(* is given and then returns or panics (ReverseProxy aborts a response it  *)
(* cannot finish copying with panic(http.ErrAbortHandler)); the underlying *)
(* writer commits the first status it is given, or 200 at the first Write  *)
(* or when the handler returns, and a Write delivers any prefix of its     *)
(* argument.  Informational (1xx) and invalid status codes are not among   *)
(* the inputs.                                                             *)
(***************************************************************************)
EXTENDS Integers, Sequences, FiniteSets, TLC

VARIABLES
  pc,           \* per exchange: position of the handler closure of logRequest
  req,          \* per exchange: the inbound request (body present?, bytes sent, Content-Type)
  rBody,        \* per exchange: bytes r.Body yields when read from the beginning
  requestBody,  \* per exchange: the local requestBody of logRequest
  rw,           \* per exchange: the local responseWriter pointer (0: not yet created)
  heap,         \* the responseWriter objects of part_000, by address
  simple,       \* per exchange: the responseWriter of main.go fed the same calls
  w,            \* per exchange: the server's http.ResponseWriter (what the client gets)
  hdr,          \* per exchange: w.Header(), the response header map
  seen,         \* per exchange: the calls w has received, with what it returned
  eng,          \* per exchange: the calls the engine has made, with what it got back
  logOut        \* per exchange: the lines this exchange has sent to log.Printf

vars == <<pc, req, rBody, requestBody, rw, heap, simple, w, hdr, seen, eng, logOut>>

----------------------------------------------------------------------------
(* Bounds and input alphabets *)

MaxCalls == 3
MaxCallsConc == 2

Ex == {1, 2}

StatusOK == 200

Digit == 49
LBracket == 91
RBracket == 93
Newline == 10
Space == 32
GzipMagic == 31
EndOfBlock == 0

JsonDoc == <<LBracket, Digit, RBracket>>

\* What the environment may feed one exchange.
Rich ==
  [ bodies   |-> {JsonDoc},
    absent   |-> BOOLEAN,
    reqTypes |-> {"application/json", "text/plain"},
    types    |-> {"application/json", "text/plain"},
    encs     |-> {"", "gzip"},
    codes    |-> {StatusOK, 404},
    chunks   |-> {JsonDoc, <<GzipMagic>>, <<EndOfBlock>>},
    short    |-> TRUE,
    maxCalls |-> MaxCalls ]

Small ==
  [ bodies   |-> {<<Digit>>},
    absent   |-> {FALSE},
    reqTypes |-> {"text/plain"},
    types    |-> {"text/plain"},
    encs     |-> {""},
    codes    |-> {StatusOK, 404},
    chunks   |-> {<<Digit>>},
    short    |-> FALSE,
    maxCalls |-> MaxCallsConc ]

----------------------------------------------------------------------------
(* isJSON, formatJSON, decompressBody *)

\* strings.Contains(strings.ToLower(contentType), "application/json"), as a
\* table over the header values of the model.
isJSON(contentType) ==
  contentType \in {"application/json", "Application/JSON"}

\* strings.Contains(strings.ToLower(encoding), "gzip"), likewise.
IsGzip(encoding) ==
  encoding \in {"gzip", "GZIP", "x-gzip"}

RECURSIVE SkipDigits(_, _)
SkipDigits(s, i) ==
  IF i <= Len(s) /\ s[i] = Digit THEN SkipDigits(s, i + 1) ELSE i

\* The index just past the JSON value that starts at s[i]; 0 if none does.
\* Over the bytes '[', ']' and '1' a value is a number, [] or [value].
RECURSIVE SkipValue(_, _)
SkipValue(s, i) ==
  IF i > Len(s) THEN 0
  ELSE IF s[i] = Digit THEN SkipDigits(s, i)
  ELSE IF s[i] = LBracket THEN
    IF i + 1 <= Len(s) /\ s[i + 1] = RBracket THEN i + 2
    ELSE LET j == SkipValue(s, i + 1)
         IN  IF j # 0 /\ j <= Len(s) /\ s[j] = RBracket THEN j + 1 ELSE 0
  ELSE 0

ValidJSON(s) == SkipValue(s, 1) = Len(s) + 1

NewlineIndent(depth) == <<Newline>> \o [k \in 1..(2 * depth) |-> Space]

\* json.Indent(dst, data, "", "  ") on valid data.
RECURSIVE IndentFrom(_, _, _)
IndentFrom(s, i, depth) ==
  IF i > Len(s) THEN <<>>
  ELSE IF s[i] = LBracket THEN
    IF s[i + 1] = RBracket
    THEN <<LBracket, RBracket>> \o IndentFrom(s, i + 2, depth)
    ELSE <<LBracket>> \o NewlineIndent(depth + 1) \o IndentFrom(s, i + 1, depth + 1)
  ELSE IF s[i] = RBracket
    THEN NewlineIndent(depth - 1) \o <<RBracket>> \o IndentFrom(s, i + 1, depth - 1)
  ELSE <<s[i]>> \o IndentFrom(s, i + 1, depth)

formatJSON(data) ==
  IF ValidJSON(data) THEN IndentFrom(data, 1, 0) ELSE data

\* io.ReadAll(reader) of a gzip.Reader positioned after a member's header at
\* s[i], acc already read: the member's bytes up to its end-of-block mark,
\* then end of input or another member.
RECURSIVE ReadMembers(_, _, _)
ReadMembers(s, i, acc) ==
  IF i > Len(s) THEN [data |-> acc, err |-> TRUE]
  ELSE IF s[i] # EndOfBlock THEN ReadMembers(s, i + 1, Append(acc, s[i]))
  ELSE IF i = Len(s) THEN [data |-> acc, err |-> FALSE]
  ELSE IF s[i + 1] = GzipMagic THEN ReadMembers(s, i + 2, acc)
  ELSE [data |-> acc, err |-> TRUE]

decompressBody(body, encoding) ==
  IF IsGzip(encoding) THEN
    IF Len(body) = 0 \/ body[1] # GzipMagic
    THEN [data |-> <<>>, err |-> TRUE]
    ELSE ReadMembers(body, 2, <<>>)
  ELSE [data |-> body, err |-> FALSE]

----------------------------------------------------------------------------
(* responseWriter of part_000 *)

\* &responseWriter{ResponseWriter: w, body: &bytes.Buffer{}, statusCode: 0}
NewResponseWriter(under) ==
  [ResponseWriter |-> under, body |-> <<>>, statusCode |-> 0, writerUsed |-> FALSE]

\* A single sink allocated once and shared by every request.
SharedSinkAddr(e) == 1

\* The address of the object the composite literal allocates for exchange e:
\* a fresh one per call of the handler closure.
NewSinkAddr(e) == e

\* A WriteHeader that records every code it is given.
WriteHeaderOverwrite(s, statusCode) == [s EXCEPT !.statusCode = statusCode]

\* The recording part of WriteHeader.
WriteHeader(s, statusCode) ==
  IF s.statusCode = 0 THEN [s EXCEPT !.statusCode = statusCode] ELSE s

\* A WriteHeader that hands on the recorded status instead of its argument.
ForwardedRecorded(s, statusCode) == s.statusCode

\* The status WriteHeader hands on to rw.ResponseWriter.WriteHeader.
ForwardedCode(s, statusCode) == statusCode

\* A Write that appends without recording the implicit 200.
WriteNoDefault(s, b) == [s EXCEPT !.body = @ \o b]

\* The recording part of Write.
Write(s, b) ==
  LET s1 == IF ~s.writerUsed
            THEN [s EXCEPT !.writerUsed = TRUE,
                           !.statusCode = IF @ = 0 THEN StatusOK ELSE @]
            ELSE s
  IN  [s1 EXCEPT !.body = @ \o b]

\* What Write returns: the underlying writer's count, not the buffer's.
WriteResult(bufN, underN) == underN

(* responseWriter of main.go *)

MainNewResponseWriter == [statusCode |-> 0, body |-> <<>>, fwd |-> <<>>]

Call(op, code, b, n) == [op |-> op, code |-> code, b |-> b, n |-> n]

MainWriteHeader(s, statusCode) ==
  [s EXCEPT !.statusCode = statusCode,
            !.fwd = Append(@, Call("WriteHeader", statusCode, <<>>, 0))]

MainWrite(s, b, n) ==
  [s EXCEPT !.body = @ \o b,
            !.fwd = Append(@, Call("Write", 0, b, n))]

(* The server's http.ResponseWriter behind the sink *)

NewConn == [wroteHeader |-> FALSE, status |-> 0, body |-> <<>>]

ConnWriteHeader(u, code) ==
  IF u.wroteHeader THEN u ELSE [u EXCEPT !.wroteHeader = TRUE, !.status = code]

\* Write commits 200 if no status was, and delivers the first n bytes of b.
ConnWrite(u, b, n) ==
  [ConnWriteHeader(u, StatusOK) EXCEPT !.body = @ \o SubSeq(b, 1, n)]

----------------------------------------------------------------------------
(* The log record *)

Line(k, code, text) == [k |-> k, code |-> code, text |-> text]

\* io.ReadAll(r.Body) when the read stops after n bytes; its error is dropped.
ReadAll(sent, n) == SubSeq(sent, 1, n)

RequestLines(r, body) ==
  <<Line("REQUEST", 0, <<>>)>> \o
  ( IF ~r.absent /\ Len(body) > 0
    THEN IF isJSON(r.ct)
         THEN <<Line("Request Body (JSON)", 0, formatJSON(body))>>
         ELSE <<Line("Request Body", 0, body)>>
    ELSE <<>> )

\* A fallback that keeps what the failed decoder returned.
DecodedOrNil(body, contentEncoding) ==
  IF contentEncoding # "" THEN decompressBody(body, contentEncoding).data ELSE body

\* The bytes the response-body line is made from: the decompressed body, or
\* the captured bytes when there is nothing to decode or decoding fails.
DecodedOrRaw(body, contentEncoding) ==
  LET r == decompressBody(body, contentEncoding)
  IN  IF contentEncoding # "" /\ ~r.err THEN r.data ELSE body

ResponseLines(s, h) ==
  <<Line("RESPONSE", 0, <<>>), Line("Status", s.statusCode, <<>>)>> \o
  ( IF Len(s.body) > 0
    THEN ( IF h.enc # "" /\ decompressBody(s.body, h.enc).err
           THEN <<Line("Failed to decompress response", 0, <<>>)>>
           ELSE <<>> ) \o
         ( IF isJSON(h.ct)
           THEN <<Line("Response Body (JSON)", 0, formatJSON(DecodedOrRaw(s.body, h.enc)))>>
           ELSE <<Line("Response Body", 0, DecodedOrRaw(s.body, h.enc))>> )
    ELSE <<>> ) \o
  <<Line("END", 0, <<>>)>>

----------------------------------------------------------------------------
(* The state machine *)

NoRequest == [absent |-> TRUE, sent |-> <<>>, ct |-> ""]
NoHeader == [ct |-> "", enc |-> ""]

Init ==
  /\ pc = [e \in Ex |-> "Idle"]
  /\ req = [e \in Ex |-> NoRequest]
  /\ rBody = [e \in Ex |-> <<>>]
  /\ requestBody = [e \in Ex |-> <<>>]
  /\ rw = [e \in Ex |-> 0]
  /\ heap = [a \in Ex |-> NewResponseWriter(a)]
  /\ simple = [e \in Ex |-> MainNewResponseWriter]
  /\ w = [e \in Ex |-> NewConn]
  /\ hdr = [e \in Ex |-> NoHeader]
  /\ seen = [e \in Ex |-> <<>>]
  /\ eng = [e \in Ex |-> <<>>]
  /\ logOut = [e \in Ex |-> <<>>]

\* The server hands a request to the handler closure.
Arrive(e, P) ==
  /\ pc[e] = "Idle"
  /\ \E absent \in P.absent, b \in P.bodies, ct \in P.reqTypes :
       LET sent == IF absent THEN <<>> ELSE b
       IN  /\ req' = [req EXCEPT ![e] = [absent |-> absent, sent |-> sent, ct |-> ct]]
           /\ rBody' = [rBody EXCEPT ![e] = sent]
  /\ pc' = [pc EXCEPT ![e] = "Start"]
  /\ UNCHANGED <<requestBody, rw, heap, simple, w, hdr, seen, eng, logOut>>

\* Request lines, then the body read, re-installed and logged.
CaptureRequest(e, P) ==
  /\ pc[e] = "Start"
  /\ \E n \in 0..Len(req[e].sent) :
       /\ P.short \/ n = Len(req[e].sent)
       /\ LET got == IF req[e].absent THEN <<>> ELSE ReadAll(req[e].sent, n)
          IN  /\ requestBody' = [requestBody EXCEPT ![e] = got]
              /\ rBody' = [rBody EXCEPT ![e] = IF req[e].absent THEN @ ELSE got]
              /\ logOut' = [logOut EXCEPT ![e] = @ \o RequestLines(req[e], got)]
  /\ pc' = [pc EXCEPT ![e] = "CapturedRequest"]
  /\ UNCHANGED <<req, rw, heap, simple, w, hdr, seen, eng>>

\* start := time.Now(); the sink is created; handler.ServeHTTP is entered.
BeginForward(e) ==
  /\ pc[e] = "CapturedRequest"
  /\ LET a == NewSinkAddr(e)
     IN  /\ heap' = [heap EXCEPT ![a] = NewResponseWriter(e)]
         /\ rw' = [rw EXCEPT ![e] = a]
  /\ pc' = [pc EXCEPT ![e] = "Serving"]
  /\ UNCHANGED <<req, rBody, requestBody, simple, w, hdr, seen, eng, logOut>>

\* The engine copies the upstream's headers into rw.Header(), which is
\* w.Header(): the sink does not define Header.
EngHeader(e, P) ==
  /\ pc[e] = "Serving"
  /\ eng[e] = <<>>
  /\ hdr[e] = NoHeader
  /\ \E ct \in P.types, enc \in P.encs :
       hdr' = [hdr EXCEPT ![heap[rw[e]].ResponseWriter] = [ct |-> ct, enc |-> enc]]
  /\ UNCHANGED <<pc, req, rBody, requestBody, rw, heap, simple, w, seen, eng, logOut>>

\* The engine calls WriteHeader(code) on the writer it was given.
EngWriteHeader(e, P) ==
  /\ pc[e] = "Serving"
  /\ Len(eng[e]) < P.maxCalls
  /\ \E code \in P.codes :
       LET a  == rw[e]
           s1 == WriteHeader(heap[a], code)
           u  == s1.ResponseWriter
           fc == ForwardedCode(s1, code)
       IN  /\ heap' = [heap EXCEPT ![a] = s1]
           /\ w' = [w EXCEPT ![u] = ConnWriteHeader(@, fc)]
           /\ seen' = [seen EXCEPT ![u] = Append(@, Call("WriteHeader", fc, <<>>, 0))]
           /\ eng' = [eng EXCEPT ![e] = Append(@, Call("WriteHeader", code, <<>>, 0))]
           /\ simple' = [simple EXCEPT ![e] = MainWriteHeader(@, code)]
  /\ UNCHANGED <<pc, req, rBody, requestBody, rw, hdr, logOut>>

\* The engine calls Write(b); the underlying writer takes n bytes of it.
EngWrite(e, P) ==
  /\ pc[e] = "Serving"
  /\ Len(eng[e]) < P.maxCalls
  /\ \E b \in P.chunks, n \in 0..Len(JsonDoc) :
       /\ n <= Len(b)
       /\ P.short \/ n = Len(b)
       /\ LET a  == rw[e]
              s1 == Write(heap[a], b)
              u  == s1.ResponseWriter
          IN  /\ heap' = [heap EXCEPT ![a] = s1]
              /\ w' = [w EXCEPT ![u] = ConnWrite(@, b, n)]
              /\ seen' = [seen EXCEPT ![u] = Append(@, Call("Write", 0, b, n))]
              /\ eng' = [eng EXCEPT ![e] =
                           Append(@, Call("Write", 0, b, WriteResult(Len(b), n)))]
              /\ simple' = [simple EXCEPT ![e] = MainWrite(@, b, n)]
  /\ UNCHANGED <<pc, req, rBody, requestBody, rw, hdr, logOut>>

\* handler.ServeHTTP returns.
EngReturn(e) ==
  /\ pc[e] = "Serving"
  /\ pc' = [pc EXCEPT ![e] = "Forwarded"]
  /\ UNCHANGED <<req, rBody, requestBody, rw, heap, simple, w, hdr, seen, eng, logOut>>

\* handler.ServeHTTP panics; nothing in logRequest is deferred, so the
\* closure is left without running the lines after the call.
EngPanic(e) ==
  /\ pc[e] = "Serving"
  /\ pc' = [pc EXCEPT ![e] = "Aborted"]
  /\ UNCHANGED <<req, rBody, requestBody, rw, heap, simple, w, hdr, seen, eng, logOut>>

\* duration, then the response lines from the sink and w.Header().
LogResponse(e) ==
  /\ pc[e] = "Forwarded"
  /\ logOut' = [logOut EXCEPT ![e] = @ \o ResponseLines(heap[rw[e]], hdr[e])]
  /\ pc' = [pc EXCEPT ![e] = "Logged"]
  /\ UNCHANGED <<req, rBody, requestBody, rw, heap, simple, w, hdr, seen, eng>>

\* The closure has returned: the server commits 200 if nothing was sent.
ServerFinish(e) ==
  /\ pc[e] = "Logged"
  /\ w' = [w EXCEPT ![e] = ConnWriteHeader(@, StatusOK)]
  /\ pc' = [pc EXCEPT ![e] = "Done"]
  /\ UNCHANGED <<req, rBody, requestBody, rw, heap, simple, hdr, seen, eng, logOut>>

Step(e, P) ==
  \/ Arrive(e, P)
  \/ CaptureRequest(e, P)
  \/ BeginForward(e)
  \/ EngHeader(e, P)
  \/ EngWriteHeader(e, P)
  \/ EngWrite(e, P)
  \/ EngReturn(e)
  \/ EngPanic(e)
  \/ LogResponse(e)
  \/ ServerFinish(e)

\* One exchange, the full input alphabet.
Next == Step(1, Rich)

Spec == Init /\ [][Next]_vars

\* Two exchanges in flight at once, a small alphabet.
NextConc == \E e \in Ex : Step(e, Small)

SpecConc == Init /\ [][NextConc]_vars

----------------------------------------------------------------------------
(* What the claims speak of *)

After(e) == pc[e] \in {"Forwarded", "Logged", "Done"}

\* The spec's state of an exchange that has entered the handler.
Phase(e) ==
  CASE pc[e] = "Start" -> "Start"
    [] pc[e] \in {"CapturedRequest", "Serving", "Aborted"} -> "CapturedRequest"
    [] pc[e] = "Forwarded" -> "Forwarded"
    [] pc[e] \in {"Logged", "Done"} -> "Logged"
    [] OTHER -> "None"

\* The status a sink should hold after `calls`: the first call decides.
FirstStatus(calls) ==
  IF calls = <<>> THEN 0
  ELSE IF calls[1].op = "WriteHeader" THEN calls[1].code ELSE StatusOK

RECURSIVE Written(_)
Written(calls) ==
  IF calls = <<>> THEN <<>>
  ELSE (IF Head(calls).op = "Write" THEN Head(calls).b ELSE <<>>) \o Written(Tail(calls))

Count(l, k) == Cardinality({i \in 1..Len(l) : l[i].k = k})

Has(l, line) == \E i \in 1..Len(l) : l[i] = line

DecodeFails(e) ==
  /\ Len(heap[rw[e]].body) > 0
  /\ IsGzip(hdr[e].enc)
  /\ decompressBody(heap[rw[e]].body, hdr[e].enc).err

----------------------------------------------------------------------------
(* Claims *)

\* C1: the status a sink records is decided by the first call made on it: the
\* code of the first WriteHeader, or 200 if a Write came first (0 before any
\* call), and no later WriteHeader or Write changes it.
C1_StatusSetOnce ==
  \A e \in Ex : rw[e] # 0 => heap[rw[e]].statusCode = FirstStatus(eng[e])

\* Two WriteHeader calls with different codes, the first one recorded.
C1_Witness ==
  \E e \in Ex :
    /\ rw[e] # 0 /\ Len(eng[e]) >= 2
    /\ eng[e][1].op = "WriteHeader" /\ eng[e][2].op = "WriteHeader"
    /\ eng[e][1].code # eng[e][2].code
    /\ heap[rw[e]].statusCode = eng[e][1].code

\* C2: once the engine has returned, the bytes in the sink's buffer are the
\* bytes the underlying writer delivered to the client, also when a write
\* failed or was short.
C2_RecordedEqualsDelivered ==
  \A e \in Ex : After(e) => heap[rw[e]].body = w[e].body

\* C3: a sink whose first call is a Write holds status 200, and its buffer is
\* the concatenation of the written chunks in call order.
C3_WriteAccumulates ==
  \A e \in Ex :
    rw[e] # 0 =>
      /\ (eng[e] # <<>> /\ eng[e][1].op = "Write" => heap[rw[e]].statusCode = StatusOK)
      /\ heap[rw[e]].body = Written(eng[e])

\* Three writes of three different chunks and no WriteHeader.
C3_Witness ==
  \E e \in Ex :
    /\ rw[e] # 0 /\ Len(eng[e]) = 3
    /\ \A i \in 1..3 : eng[e][i].op = "Write"
    /\ Cardinality({eng[e][i].b : i \in 1..3}) = 3
    /\ heap[rw[e]].body = eng[e][1].b \o eng[e][2].b \o eng[e][3].b
    /\ heap[rw[e]].statusCode = StatusOK

\* C4: the body re-installed on the request yields, read from the beginning,
\* exactly the bytes of the request body, also when the read of the inbound
\* body ended early with an error.
C4_CaptureTransparent ==
  \A e \in Ex : pc[e] \notin {"Idle", "Start"} => rBody[e] = req[e].sent

\* C5: an exchange whose handling has ended is in Logged and has emitted one
\* complete record: one request part, one response part with its status and
\* its end, whatever the engine did.
C5_EndsLogged ==
  \A e \in Ex :
    pc[e] \in {"Done", "Aborted"} =>
      /\ Phase(e) = "Logged"
      /\ \A k \in {"REQUEST", "RESPONSE", "Status", "END"} : Count(logOut[e], k) = 1

\* C6: when the response is gzip-labelled and its captured bytes do not
\* decompress, the record carries the warning and the body line made from the
\* undecoded bytes, the response part can always be logged, and logging it
\* leaves what the client was sent untouched.
C6_DecodeFailureFailsOpen ==
  /\ [](\A e \in Ex :
          /\ pc[e] = "Forwarded" => ENABLED LogResponse(e)
          /\ pc[e] \in {"Logged", "Done"} /\ DecodeFails(e) =>
               /\ Has(logOut[e], Line("Failed to decompress response", 0, <<>>))
               /\ Has(logOut[e],
                      IF isJSON(hdr[e].ct)
                      THEN Line("Response Body (JSON)", 0, formatJSON(heap[rw[e]].body))
                      ELSE Line("Response Body", 0, heap[rw[e]].body)))
  /\ [][\A e \in Ex :
          pc[e] = "Forwarded" /\ pc'[e] = "Logged" =>
            w'[e] = w[e] /\ seen'[e] = seen[e] /\ hdr'[e] = hdr[e]]_vars

\* A logged exchange whose gzip-labelled body starts like a gzip stream and
\* breaks off.
C6_Witness ==
  \E e \in Ex :
    /\ pc[e] = "Logged" /\ DecodeFails(e)
    /\ heap[rw[e]].body = <<GzipMagic>> \o JsonDoc
    /\ isJSON(hdr[e].ct)
    /\ w[e].body = heap[rw[e]].body

\* C7: with exchanges in flight together, each has a sink of its own that
\* holds and logs exactly what the engine set and wrote for that exchange,
\* and a step of one exchange leaves the sink, the channel and the record of
\* every other exchange as they were.
C7_ExchangesIsolated ==
  /\ [](\A e \in Ex :
          /\ rw[e] # 0 =>
               /\ heap[rw[e]].ResponseWriter = e
               /\ heap[rw[e]].statusCode = FirstStatus(eng[e])
               /\ heap[rw[e]].body = Written(eng[e])
               /\ \A f \in Ex \ {e} : rw[f] # rw[e]
          /\ pc[e] \in {"Logged", "Done"} =>
               /\ Has(logOut[e], Line("Status", FirstStatus(eng[e]), <<>>))
               /\ Written(eng[e]) # <<>> =>
                    Has(logOut[e], Line("Response Body", 0, Written(eng[e]))))
  /\ [][\A e \in Ex :
          pc'[e] = pc[e] /\ eng'[e] = eng[e] /\ hdr'[e] = hdr[e] =>
            /\ rw'[e] = rw[e]
            /\ rw[e] # 0 => heap'[rw[e]] = heap[rw[e]]
            /\ logOut'[e] = logOut[e]
            /\ w'[e] = w[e] /\ seen'[e] = seen[e]]_vars

\* Both exchanges inside the engine at once, each with calls made and a
\* different status recorded.
C7_Witness ==
  /\ pc[1] = "Serving" /\ pc[2] = "Serving"
  /\ eng[1] # <<>> /\ eng[2] # <<>>
  /\ heap[rw[1]].statusCode # heap[rw[2]].statusCode
  /\ heap[rw[1]].body # heap[rw[2]].body

\* C8: when the cycle is over, the status the sink recorded, which is the
\* status logged, is the status the underlying channel committed to the
\* client.
C8_RecordedIsCommitted ==
  \A e \in Ex :
    pc[e] = "Done" =>
      /\ heap[rw[e]].statusCode = w[e].status
      /\ Has(logOut[e], Line("Status", w[e].status, <<>>))

\* C9: the underlying channel receives every WriteHeader and Write the engine
\* makes, once each, with the same argument and in the same order, and the
\* engine gets back from Write the count the channel returned; the sink of
\* main.go forwards the same.
C9_PassThrough ==
  \A e \in Ex : seen[e] = eng[e] /\ simple[e].fwd = eng[e]

\* A second WriteHeader whose code is not recorded but is forwarded, and a
\* short write whose count is handed back.
C9_Witness ==
  \E e \in Ex :
    /\ Len(eng[e]) = 3
    /\ eng[e][1].op = "WriteHeader" /\ eng[e][2].op = "WriteHeader"
    /\ seen[e][2].code # heap[rw[e]].statusCode
    /\ eng[e][3].op = "Write" /\ eng[e][3].n < Len(eng[e][3].b)

\* C10: fed the same calls, the sink of main.go and the sink of part_000 end
\* with the same recorded status and the same recorded body, and have
\* forwarded the same calls.
C10_VariantsAgree ==
  \A e \in Ex :
    After(e) =>
      /\ simple[e].statusCode = heap[rw[e]].statusCode
      /\ simple[e].body = heap[rw[e]].body
      /\ simple[e].fwd = seen[e]

====
